---- MODULE Spec2Model ----
(***************************************************************************)
(* News-AI-Agent: the polling loop of app.py and the scraping, dedup and   *)
(* publishing helpers of agent_logic.py.                                   *)
(*                                                                         *)
(* Strings are sequences of tokens.  A URL is <<origin, path tokens...>>,  *)
(* a title is a sequence over {"w", " "}, and the posted_articles.txt      *)
(* file is the sequence of tokens written to it, LF being the "\n" that    *)
(* mark_as_posted writes and FF standing for any other character that      *)
(* str.splitlines() treats as a line boundary (\x0b, \x0c, \x1c-\x1e,      *)
(* \x85, U+2028, U+2029) and that urljoin leaves in a URL.                 *)
(***************************************************************************)
EXTENDS Integers, Sequences, FiniteSets, TLC

VARIABLES
    running,          \* st.session_state.running
    pc,               \* position of the script run in app.py
    creds,            \* <<GROQ_API_KEY, TELEGRAM_BOT_TOKEN, TELEGRAM_CHANNEL_ID>>
    siteIdx,          \* position of `for site_name in selected_sites`
    latest_articles,  \* list returned by get_latest_articles for the site
    artIdx,           \* position of `for article in latest_articles`
    content,          \* <<>> (None) or <<[text, image_url]>>
    summary,          \* <<>> (None) or <<text>>
    success,          \* value returned by post_to_telegram
    store,            \* posted_articles.txt: [exists, text]
    cycle,            \* passes of the while loop started so far
    posted,           \* history: URLs whose post_to_telegram returned True
    failed,           \* history: URLs whose post returned False before any True
    outcome,          \* history: outcome of the last finished candidate or source
    touched,          \* history: this script run made a network call or store write
    doc,              \* homepage document handed to the link extractor
    message           \* <<>> or <<[photo, text]>> handed to the Telegram bot

vars == <<running, pc, creds, siteIdx, latest_articles, artIdx, content,
          summary, success, store, cycle, posted, failed, outcome, touched,
          doc, message>>

----------------------------------------------------------------------------
(* Bounds and program constants *)

MaxCycles == 2
MaxElems == 2
MaxDocLen == 12
MaxParas == 3
MaxSummaryLen == 900
MaxTitleWords == 50
MaxUrlLen == 100
MaxArticles == 10
MinTitleWords == 5
MAX_SUMMARY_LENGTH == 850
CaptionLimit == 1024

----------------------------------------------------------------------------
(* Strings *)

LF == "LF"
FF == "FF"
LineBreaks == {LF, FF}

Range(s) == {s[i] : i \in 1..Len(s)}

Count(s, x) == Cardinality({i \in 1..Len(s) : s[i] = x})

RECURSIVE Flatten(_)
Flatten(ss) == IF ss = <<>> THEN <<>> ELSE Head(ss) \o Flatten(Tail(ss))

\* str.strip() / get_text(strip=True) on a single text node
RECURSIVE LStrip(_)
LStrip(t) == IF t # <<>> /\ Head(t) = " " THEN LStrip(Tail(t)) ELSE t

RECURSIVE RStrip(_)
RStrip(t) ==
    IF t # <<>> /\ t[Len(t)] = " " THEN RStrip(SubSeq(t, 1, Len(t) - 1)) ELSE t

Strip(t) == RStrip(LStrip(t))

\* str.split(): the maximal runs of non-space characters
RECURSIVE SplitFrom(_, _, _)
SplitFrom(t, cur, acc) ==
    IF t = <<>> THEN (IF cur = <<>> THEN acc ELSE Append(acc, cur))
    ELSE IF Head(t) = " "
         THEN SplitFrom(Tail(t), <<>>, IF cur = <<>> THEN acc ELSE Append(acc, cur))
         ELSE SplitFrom(Tail(t), Append(cur, Head(t)), acc)

Split(t) == SplitFrom(t, <<>>, <<>>)

\* str.splitlines(): cut after every line boundary, no trailing empty line
RECURSIVE SplitLinesFrom(_, _, _)
SplitLinesFrom(t, cur, acc) ==
    IF t = <<>> THEN (IF cur = <<>> THEN acc ELSE Append(acc, cur))
    ELSE IF Head(t) \in LineBreaks
         THEN SplitLinesFrom(Tail(t), <<>>, Append(acc, cur))
         ELSE SplitLinesFrom(Tail(t), Append(cur, Head(t)), acc)

SplitLines(t) == SplitLinesFrom(t, <<>>, <<>>)

----------------------------------------------------------------------------
(* Sources and URLs *)

selected_sites == <<"s1", "s2">>

Origins == Range(selected_sites)

NEWS_SITES(site_name) == [url |-> <<site_name, "/news">>, selector |-> "a"]

IsAbsolute(href) == href # <<>> /\ href[1] \in Origins

\* urllib.parse.urljoin for an absolute or a root-relative href
urljoin(base, href) == IF IsAbsolute(href) THEN href ELSE <<base[1]>> \o href

----------------------------------------------------------------------------
(* agent_logic.py: link extractor *)

Urls(articles) == {articles[i].url : i \in 1..Len(articles)}

\* the filter with >= written for >
QualifiesFromFive(title, href) ==
    title # <<>> /\ href # <<>> /\ Len(Split(title)) >= MinTitleWords

\* the filter of line 37: truthy title, truthy href, more than 5 words
Qualifies(title, href) ==
    title # <<>> /\ href # <<>> /\ Len(Split(title)) > MinTitleWords

\* the duplicate test of line 38: the raw href against the accepted urls
IsNewLink(href, articles) == href \notin Urls(articles)

\* the loop of lines 30-40 over the matched elements, in document order
RECURSIVE CollectLinks(_, _, _, _)
CollectLinks(site_url, elems, i, articles) ==
    IF i > Len(elems) THEN articles
    ELSE LET title == Strip(elems[i].text)
             href == elems[i].href
         IN IF Qualifies(title, href) /\ IsNewLink(href, articles)
            THEN CollectLinks(site_url, elems, i + 1,
                     Append(articles,
                            [title |-> title, url |-> urljoin(site_url, href)]))
            ELSE CollectLinks(site_url, elems, i + 1, articles)

\* a cap that is off by one: articles[:11]
CapArticlesOffByOne(articles) ==
    SubSeq(articles, 1, IF Len(articles) < MaxArticles + 1 THEN Len(articles)
                        ELSE MaxArticles + 1)

\* articles[:10]
CapArticles(articles) ==
    SubSeq(articles, 1, IF Len(articles) < MaxArticles THEN Len(articles)
                        ELSE MaxArticles)

\* get_latest_articles once the homepage was fetched and parsed
get_latest_articles(site_url, elems) ==
    CapArticles(CollectLinks(site_url, elems, 1, <<>>))

----------------------------------------------------------------------------
(* agent_logic.py: content extractor, summarizer *)

RECURSIVE JoinWith(_, _)
JoinWith(ss, sep) ==
    IF ss = <<>> THEN <<>>
    ELSE IF Len(ss) = 1 THEN ss[1]
    ELSE ss[1] \o sep \o JoinWith(Tail(ss), sep)

\* scrape_article_content once the article page was fetched and parsed:
\* <<>> is None, <<c>> is the dictionary c
scrape_article_content(page) ==
    LET article_text ==
            JoinWith([i \in 1..Len(page.paras) |-> Strip(page.paras[i])], <<" ">>)
    IN IF article_text = <<>> THEN <<>>
       ELSE <<[text |-> article_text, image_url |-> page.og]>>

Placeholder == <<"Summary could not be generated.">>

\* summarize_article reaches chain.invoke only past the test of line 86
InvokesChain(article_text) == article_text # <<>>

\* the empty text answered like a failed call
summarize_article_none(article_text, llm) ==
    IF article_text = <<>> THEN <<>> ELSE llm

\* summarize_article: llm is what chain.invoke does, <<>> when it raises,
\* <<output_text>> when it returns
summarize_article(article_text, llm) ==
    IF article_text = <<>> THEN <<Placeholder>> ELSE llm

----------------------------------------------------------------------------
(* agent_logic.py: publisher *)

Ellipsis == <<".", ".", ".">>

\* the summary cut without the marker
TruncateNoEllipsis(text) ==
    IF Len(text) > MAX_SUMMARY_LENGTH THEN SubSeq(text, 1, MAX_SUMMARY_LENGTH)
    ELSE text

\* lines 142-143
Truncate(text) ==
    IF Len(text) > MAX_SUMMARY_LENGTH
    THEN SubSeq(text, 1, MAX_SUMMARY_LENGTH) \o Ellipsis
    ELSE text

\* the characters of "[Read the full article here]("
LinkLabel ==
    <<"[", "R", "e", "a", "d", " ", "t", "h", "e", " ", "f", "u", "l", "l", " ",
      "a", "r", "t", "i", "c", "l", "e", " ", "h", "e", "r", "e", "]", "(">>

MessageHead == <<"U+1F4F0", " ", "*">>

MessageMid == <<"*", LF, LF>>

MessageLink == <<LF, LF, "U+1F517", " ">> \o LinkLabel

\* the f-string of line 145
FormatMessage(title, text, url) ==
    MessageHead \o title \o MessageMid \o text \o MessageLink \o url \o <<")">>

\* post_to_telegram up to the transport call: send_photo with the message as
\* caption when the article has an image, send_message otherwise
post_to_telegram(text, title, url, image_url) ==
    [photo |-> image_url # <<>>,
     text |-> FormatMessage(title, Truncate(text), url)]

----------------------------------------------------------------------------
(* agent_logic.py: dedup store *)

has_been_posted(article_url, file) ==
    IF ~file.exists THEN FALSE
    ELSE article_url \in Range(SplitLines(file.text))

mark_as_posted(article_url, file) ==
    [exists |-> TRUE, text |-> file.text \o article_url \o <<LF>>]

----------------------------------------------------------------------------
(* What the outside world can hand to the agent *)

Title(n) == Flatten([i \in 1..n |-> IF i = 1 THEN <<"w">> ELSE <<" ", "w">>])

HomeTexts == {Title(MinTitleWords), <<" ">> \o Title(MinTitleWords + 1) \o <<" ">>}

\* the first source links to /a and to a path holding a line boundary
HomeHrefs(name) ==
    IF name = selected_sites[1] THEN {<<>>, <<"/a">>, <<"/a", FF, "/b">>}
    ELSE {<<>>, <<"/a">>}

HomeElems(name) == [text : HomeTexts, href : HomeHrefs(name)]

\* the urls the homepages of the selected sites can link to
KnownUrls ==
    {urljoin(NEWS_SITES(n).url, h) : <<n, h>> \in
        {t \in Origins \X UNION {HomeHrefs(m) : m \in Origins} :
            t[2] \in HomeHrefs(t[1]) /\ t[2] # <<>>}}

SeqsUpTo(S, n) == UNION {[1..k -> S] : k \in 0..n}

HomeDocs(name) == SeqsUpTo(HomeElems(name), MaxElems)

ArticlePages ==
    [paras : {<<>>, << <<" ">> >>, << <<" ">>, <<" ">> >>, << <<"t">> >>},
     og : {<<>>, <<"img">>}]

LlmResults == {<<>>, << <<>> >>, << <<"s">> >>}

CredValues == {<<>>, <<"k">>}

CredSets == [1..3 -> CredValues]

----------------------------------------------------------------------------
(* app.py: the script run *)

\* any() written for all()
AnyKey(c) == \E i \in 1..3 : c[i] # <<>>

\* all([GROQ_API_KEY, TELEGRAM_BOT_TOKEN, TELEGRAM_CHANNEL_ID])
AllKeys(c) == \A i \in 1..3 : c[i] # <<>>

site_name == selected_sites[siteIdx]

article == latest_articles[artIdx]

Idle == pc \in {"idle", "config_error", "crashed"}

Init ==
    /\ running = FALSE
    /\ pc = "idle"
    /\ creds \in CredSets
    /\ siteIdx = 1
    /\ latest_articles = <<>>
    /\ artIdx = 1
    /\ content = <<>>
    /\ summary = <<>>
    /\ success = FALSE
    /\ store = [exists |-> FALSE, text |-> <<>>]
    /\ cycle = 0
    /\ posted = <<>>
    /\ failed = {}
    /\ outcome = ""
    /\ touched = FALSE
    /\ doc = <<>>
    /\ message = <<>>

\* the Start button: the flag is set and the script is run from the top
Start ==
    /\ Idle
    /\ running' = TRUE
    /\ pc' = "check_keys"
    /\ siteIdx' = 1
    /\ latest_articles' = <<>>
    /\ artIdx' = 1
    /\ content' = <<>>
    /\ summary' = <<>>
    /\ success' = FALSE
    /\ outcome' = ""
    /\ touched' = FALSE
    /\ message' = <<>>
    /\ UNCHANGED <<creds, store, cycle, posted, failed, doc>>

\* the Stop button, pressed while the loop runs
Stop ==
    /\ running
    /\ running' = FALSE
    /\ UNCHANGED <<pc, creds, siteIdx, latest_articles, artIdx, content,
                   summary, success, store, cycle, posted, failed, outcome,
                   touched, doc, message>>

\* the process is stopped between two passes and started again: the session
\* state and the environment are new, posted_articles.txt is kept
Restart ==
    /\ pc \in {"sleep", "idle", "config_error", "crashed"}
    /\ running' = FALSE
    /\ pc' = "idle"
    /\ creds' \in CredSets
    /\ siteIdx' = 1
    /\ latest_articles' = <<>>
    /\ artIdx' = 1
    /\ content' = <<>>
    /\ summary' = <<>>
    /\ success' = FALSE
    /\ outcome' = ""
    /\ touched' = FALSE
    /\ message' = <<>>
    /\ UNCHANGED <<store, cycle, posted, failed, doc>>

\* lines 112-124
CheckKeys ==
    /\ pc = "check_keys"
    /\ IF ~AllKeys(creds)
       THEN running' = FALSE /\ pc' = "config_error"
       ELSE running' = running /\ pc' = "while_head"
    /\ UNCHANGED <<creds, siteIdx, latest_articles, artIdx, content, summary,
                   success, store, cycle, posted, failed, outcome, touched,
                   doc, message>>

\* line 127
WhileHead ==
    /\ pc = "while_head"
    /\ IF running
       THEN /\ cycle < MaxCycles
            /\ cycle' = cycle + 1
            /\ siteIdx' = 1
            /\ pc' = "site_head"
       ELSE /\ pc' = "idle"
            /\ UNCHANGED <<cycle, siteIdx>>
    /\ UNCHANGED <<running, creds, latest_articles, artIdx, content, summary,
                   success, store, posted, failed, outcome, touched, doc, message>>

\* lines 132-138
SiteHead ==
    /\ pc = "site_head"
    /\ pc' = IF siteIdx > Len(selected_sites) \/ ~running
             THEN "sleep" ELSE "fetch_home"
    /\ UNCHANGED <<running, creds, siteIdx, latest_articles, artIdx, content,
                   summary, success, store, cycle, posted, failed, outcome,
                   touched, doc, message>>

\* `break` written for the `continue` of line 145
FetchHomepageBreak ==
    /\ pc = "fetch_home"
    /\ \E got \in {<<>>} \cup {get_latest_articles(NEWS_SITES(site_name).url, d) :
                               d \in HomeDocs(site_name)} :
          /\ latest_articles' = got
          /\ pc' = IF got = <<>> THEN "sleep" ELSE "cand_head"
          /\ outcome' = IF got = <<>> THEN "NoArticles" ELSE ""
    /\ artIdx' = 1
    /\ touched' = TRUE
    /\ UNCHANGED <<running, creds, siteIdx, content, summary, success, store,
                   cycle, posted, failed, doc, message>>

\* lines 140-147: the homepage may fail to load (the extractor returns [])
\* or hold any document; an empty list is logged and the next site is taken
FetchHomepage ==
    /\ pc = "fetch_home"
    /\ \E got \in {<<>>} \cup {get_latest_articles(NEWS_SITES(site_name).url, d) :
                               d \in HomeDocs(site_name)} :
          /\ latest_articles' = got
          /\ IF got = <<>>
             THEN /\ siteIdx' = siteIdx + 1
                  /\ pc' = "site_head"
                  /\ outcome' = "NoArticles"
             ELSE /\ siteIdx' = siteIdx
                  /\ pc' = "cand_head"
                  /\ outcome' = ""
    /\ artIdx' = 1
    /\ touched' = TRUE
    /\ UNCHANGED <<running, creds, content, summary, success, store, cycle,
                   posted, failed, doc, message>>

\* the candidate loop without its check of the running flag
CandHeadNoCheck ==
    /\ pc = "cand_head"
    /\ pc' = IF artIdx > Len(latest_articles) THEN "site_end" ELSE "dedup"
    /\ content' = <<>>
    /\ summary' = <<>>
    /\ success' = FALSE
    /\ message' = <<>>
    /\ UNCHANGED <<running, creds, siteIdx, latest_articles, artIdx, store,
                   cycle, posted, failed, outcome, touched, doc>>

\* lines 148-149.  content, summary, success and the message of the
\* iteration before are dead here (each is assigned again before it is read)
\* and are dropped.
CandHead ==
    /\ pc = "cand_head"
    /\ pc' = IF artIdx > Len(latest_articles) \/ ~running
             THEN "site_end" ELSE "dedup"
    /\ content' = <<>>
    /\ summary' = <<>>
    /\ success' = FALSE
    /\ message' = <<>>
    /\ UNCHANGED <<running, creds, siteIdx, latest_articles, artIdx, store,
                   cycle, posted, failed, outcome, touched, doc>>

\* the dedup check made and its answer not used
DedupNoSkip ==
    /\ pc = "dedup"
    /\ pc' = "scrape"
    /\ UNCHANGED <<running, creds, siteIdx, latest_articles, artIdx, content,
                   summary, success, store, cycle, posted, failed, outcome,
                   touched, doc, message>>

\* lines 151-152
Dedup ==
    /\ pc = "dedup"
    /\ IF has_been_posted(article.url, store)
       THEN /\ outcome' = "SkippedPosted"
            /\ artIdx' = artIdx + 1
            /\ pc' = "cand_head"
       ELSE /\ pc' = "scrape"
            /\ UNCHANGED <<outcome, artIdx>>
    /\ UNCHANGED <<running, creds, siteIdx, latest_articles, content, summary,
                   success, store, cycle, posted, failed, touched, doc, message>>

\* the text of the page handed on with neither test of it made
ScrapeNoTextCheck ==
    /\ pc = "scrape"
    /\ \E p \in ArticlePages :
          content' = <<[text |-> JoinWith([i \in 1..Len(p.paras) |->
                                              Strip(p.paras[i])], <<" ">>),
                        image_url |-> p.og]>>
    /\ pc' = "summarize"
    /\ touched' = TRUE
    /\ UNCHANGED <<running, creds, siteIdx, latest_articles, artIdx, summary,
                   success, store, cycle, posted, failed, outcome, doc,
                   message>>

\* lines 158-162: the article page may fail to load (None) or hold any page
Scrape ==
    /\ pc = "scrape"
    /\ \E got \in {<<>>} \cup {scrape_article_content(p) : p \in ArticlePages} :
          /\ content' = got
          /\ IF got = <<>> \/ got[1].text = <<>>
             THEN /\ outcome' = "SkippedScrape"
                  /\ artIdx' = artIdx + 1
                  /\ pc' = "cand_head"
             ELSE /\ pc' = "summarize"
                  /\ UNCHANGED <<outcome, artIdx>>
    /\ touched' = TRUE
    /\ UNCHANGED <<running, creds, siteIdx, latest_articles, summary, success,
                   store, cycle, posted, failed, doc, message>>

\* lines 164-170
Summarize ==
    /\ pc = "summarize"
    /\ \E llm \in LlmResults :
          LET got == summarize_article(content[1].text, llm)
          IN /\ summary' = got
             /\ IF got = <<>> \/ got[1] = <<>>
                THEN /\ outcome' = "SkippedSummarize"
                     /\ artIdx' = artIdx + 1
                     /\ pc' = "cand_head"
                ELSE /\ pc' = "publish"
                     /\ UNCHANGED <<outcome, artIdx>>
    /\ touched' = TRUE
    /\ UNCHANGED <<running, creds, siteIdx, latest_articles, content, success,
                   store, cycle, posted, failed, doc, message>>

\* lines 164 and 172-177: the image of the scraped page goes with the
\* article, the message is built and the transport call returns or raises
Publish ==
    /\ pc = "publish"
    /\ \E sent \in BOOLEAN :
          /\ success' = sent
          /\ posted' = IF sent THEN Append(posted, article.url) ELSE posted
          /\ failed' = IF sent \/ article.url \in Range(posted) THEN failed
                       ELSE failed \cup {article.url}
    /\ pc' = "record"
    /\ touched' = TRUE
    /\ message' = <<post_to_telegram(summary[1], article.title, article.url,
                                      content[1].image_url)>>
    /\ UNCHANGED <<running, creds, siteIdx, latest_articles, artIdx, content,
                   summary, store, cycle, outcome, doc>>

\* the URL recorded whatever post_to_telegram returned
RecordAlways ==
    /\ pc = "record"
    /\ store' = mark_as_posted(article.url, store)
    /\ outcome' = IF success THEN "Posted" ELSE "Failed"
    /\ artIdx' = artIdx + 1
    /\ pc' = "cand_head"
    /\ touched' = TRUE
    /\ UNCHANGED <<running, creds, siteIdx, latest_articles, content, summary,
                   success, cycle, posted, failed, doc, message>>

\* a failed post tried again at once
RecordRetry ==
    /\ pc = "record"
    /\ IF success
       THEN /\ store' = mark_as_posted(article.url, store)
            /\ outcome' = "Posted"
            /\ artIdx' = artIdx + 1
            /\ pc' = "cand_head"
       ELSE /\ pc' = "publish"
            /\ UNCHANGED <<store, outcome, artIdx>>
    /\ touched' = (touched \/ success)
    /\ UNCHANGED <<running, creds, siteIdx, latest_articles, content, summary,
                   success, cycle, posted, failed, doc, message>>

\* lines 179-186
Record ==
    /\ pc = "record"
    /\ IF success
       THEN /\ store' = mark_as_posted(article.url, store)
            /\ outcome' = "Posted"
       ELSE /\ store' = store
            /\ outcome' = "Failed"
    /\ artIdx' = artIdx + 1
    /\ pc' = "cand_head"
    /\ touched' = (touched \/ success)
    /\ UNCHANGED <<running, creds, siteIdx, latest_articles, content, summary,
                   success, cycle, posted, failed, doc, message>>

\* lines 188-190, then the next site.  latest_articles and the loop position
\* are dead from here to the next homepage and are dropped.
SiteEnd ==
    /\ pc = "site_end"
    /\ siteIdx' = siteIdx + 1
    /\ pc' = "site_head"
    /\ latest_articles' = <<>>
    /\ artIdx' = 1
    /\ outcome' = ""
    /\ UNCHANGED <<running, creds, content, summary, success, store, cycle,
                   posted, failed, touched, doc, message>>

\* lines 193-197
Sleep ==
    /\ pc = "sleep"
    /\ pc' = "while_head"
    /\ UNCHANGED <<running, creds, siteIdx, latest_articles, artIdx, content,
                   summary, success, store, cycle, posted, failed, outcome,
                   touched, doc, message>>

Next ==
    \/ Start
    \/ Stop
    \/ Restart
    \/ CheckKeys
    \/ WhileHead
    \/ SiteHead
    \/ FetchHomepage
    \/ CandHead
    \/ Dedup
    \/ Scrape
    \/ Summarize
    \/ Publish
    \/ Record
    \/ SiteEnd
    \/ Sleep

Spec == Init /\ [][Next]_vars

----------------------------------------------------------------------------
(* One pass of the loop.  The script run is one thread and every call it    *)
(* makes returns or raises (requests.get has timeout=10, the loop sleeps 60 *)
(* seconds): a step of the run that can be taken is taken.  The buttons and *)
(* the restart are the user's and are under no such condition.              *)

ScriptStep ==
    \/ CheckKeys
    \/ WhileHead
    \/ SiteHead
    \/ FetchHomepage
    \/ CandHead
    \/ Dedup
    \/ Scrape
    \/ Summarize
    \/ Publish
    \/ Record
    \/ SiteEnd
    \/ Sleep

\* what the passes before have published and recorded: nothing, or the
\* first link of the first site
EarlierPosts ==
    {<<>>, <<urljoin(NEWS_SITES(selected_sites[1]).url, <<"/a">>)>>}

\* the process is started for the last pass that the bound on the passes
\* allows, with the file the passes before it have left
LiveInit ==
    /\ running = FALSE
    /\ pc = "idle"
    /\ creds \in CredSets
    /\ siteIdx = 1
    /\ latest_articles = <<>>
    /\ artIdx = 1
    /\ content = <<>>
    /\ summary = <<>>
    /\ success = FALSE
    /\ cycle = MaxCycles - 1
    /\ \E earlier \in EarlierPosts :
          /\ posted = earlier
          /\ store = IF earlier = <<>> THEN [exists |-> FALSE, text |-> <<>>]
                     ELSE mark_as_posted(earlier[1],
                                         [exists |-> FALSE, text |-> <<>>])
    /\ failed = {}
    /\ outcome = ""
    /\ touched = FALSE
    /\ doc = <<>>
    /\ message = <<>>

SpecLive == LiveInit /\ [][Next]_vars /\ WF_vars(ScriptStep)

----------------------------------------------------------------------------
(* The store operations may fail: open() or write() of posted_articles.txt *)
(* raises (unreadable file, full disk, a URL the locale cannot encode) and *)
(* app.py has no handler, so the script run ends with the traceback.       *)

\* line 151: has_been_posted raises
DedupRaises ==
    /\ pc = "dedup"
    /\ pc' = "crashed"
    /\ UNCHANGED <<running, creds, siteIdx, latest_articles, artIdx, content,
                   summary, success, store, cycle, posted, failed, outcome,
                   touched, doc, message>>

\* line 180: mark_as_posted raises
RecordRaises ==
    /\ pc = "record"
    /\ success
    /\ pc' = "crashed"
    /\ UNCHANGED <<running, creds, siteIdx, latest_articles, artIdx, content,
                   summary, success, store, cycle, posted, failed, outcome,
                   touched, doc, message>>

NextStoreFault ==
    \/ Next
    \/ DedupRaises
    \/ RecordRaises

SpecStoreFault == Init /\ [][NextStoreFault]_vars

----------------------------------------------------------------------------
(* The link extractor alone, on larger homepages *)

PathToken(i) == "/" \o ToString(i)

LinkHref(i, abs) ==
    IF abs THEN <<selected_sites[1], PathToken(i)>> ELSE <<PathToken(i)>>

\* element i of a homepage of n links to n articles, but for a block of
\* elements from..from+len-1 that are all of one kind: a repeat of the first
\* link in the same or in the other spelling, a short title, no href, no text
LinkElem(i, abs, from, len, kind) ==
    IF from = 0 \/ i < from \/ i >= from + len
    THEN [text |-> Title(MinTitleWords + 1), href |-> LinkHref(i, abs)]
    ELSE CASE kind = "repeat" ->
                [text |-> Title(MinTitleWords + 1), href |-> LinkHref(1, abs)]
           [] kind = "respelt" ->
                [text |-> Title(MinTitleWords + 2), href |-> LinkHref(1, ~abs)]
           [] kind = "short" ->
                [text |-> Title(MinTitleWords), href |-> LinkHref(i, abs)]
           [] kind = "nohref" ->
                [text |-> Title(MinTitleWords + 1), href |-> <<>>]
           [] OTHER ->
                [text |-> <<" ">>, href |-> LinkHref(i, abs)]

LinkKinds == {"repeat", "respelt", "short", "nohref", "notext"}

ExtractDocs ==
    {[i \in 1..n |-> LinkElem(i, abs, from, len, kind)] :
        <<n, abs, from, len, kind>> \in
            {t \in (0..MaxDocLen) \X BOOLEAN \X (0..MaxDocLen) \X (1..2) \X LinkKinds :
                /\ t[3] # 1
                /\ t[3] + t[4] - 1 <= t[1]}}

ExtractInit ==
    /\ running = FALSE
    /\ pc = "extract"
    /\ creds = [i \in 1..3 |-> <<"k">>]
    /\ siteIdx = 1
    /\ latest_articles = <<>>
    /\ artIdx = 1
    /\ content = <<>>
    /\ summary = <<>>
    /\ success = FALSE
    /\ store = [exists |-> FALSE, text |-> <<>>]
    /\ cycle = 0
    /\ posted = <<>>
    /\ failed = {}
    /\ outcome = ""
    /\ touched = FALSE
    /\ doc \in ExtractDocs
    /\ message = <<>>

\* one call of get_latest_articles on the document
ExtractLinks ==
    /\ pc = "extract"
    /\ latest_articles' = get_latest_articles(NEWS_SITES(site_name).url, doc)
    /\ pc' = "extracted"
    /\ UNCHANGED <<running, creds, siteIdx, artIdx, content, summary, success,
                   store, cycle, posted, failed, outcome, touched, doc, message>>

SpecExtract == ExtractInit /\ [][ExtractLinks]_vars

----------------------------------------------------------------------------
(* The content extractor, the summarizer and the publisher alone, each      *)
(* called once on an input of its own                                       *)

ParaTexts == {<<>>, <<" ">>, <<"t">>, <<" ", "t", " ">>}

UnitPages == [paras : SeqsUpTo(ParaTexts, MaxParas), og : {<<>>, <<"img">>}]

UnitTexts == {<<>>, <<" ">>, <<"t">>, <<"t", " ", "t">>}

\* a summary of n characters, no two neighbours alike
SummaryText(n) == [i \in 1..n |-> ToString(i % 10)]

SummaryLens ==
    {n \in 0..MaxSummaryLen : n < 3 \/ n > MAX_SUMMARY_LENGTH - 3}

UnitTitles == {Title(MinTitleWords + 1), Title(MaxTitleWords)}

UnitUrls ==
    {<<selected_sites[1], "/a">>,
     <<selected_sites[1]>> \o [i \in 1..MaxUrlLen |-> "/"]}

UnitInputs ==
    {[fn |-> "scrape", page |-> p] : p \in UnitPages}
    \cup {[fn |-> "summarize", text |-> t, llm |-> l] :
             t \in UnitTexts, l \in LlmResults}
    \cup {[fn |-> "publish", text |-> SummaryText(n), title |-> t, url |-> u,
           image_url |-> im] :
             n \in SummaryLens, t \in UnitTitles, u \in UnitUrls,
             im \in {<<>>, <<"img">>}}

UnitInit ==
    /\ running = FALSE
    /\ pc = "unit"
    /\ creds = [i \in 1..3 |-> <<"k">>]
    /\ siteIdx = 1
    /\ latest_articles = <<>>
    /\ artIdx = 1
    /\ content = <<>>
    /\ summary = <<>>
    /\ success = FALSE
    /\ store = [exists |-> FALSE, text |-> <<>>]
    /\ cycle = 0
    /\ posted = <<>>
    /\ failed = {}
    /\ outcome = ""
    /\ touched = FALSE
    /\ doc \in UnitInputs
    /\ message = <<>>

\* one call of scrape_article_content on the page
ScrapePage ==
    /\ pc = "unit"
    /\ doc.fn = "scrape"
    /\ content' = scrape_article_content(doc.page)
    /\ pc' = "unit_done"
    /\ UNCHANGED <<running, creds, siteIdx, latest_articles, artIdx, summary,
                   success, store, cycle, posted, failed, outcome, touched,
                   doc, message>>

\* one call of summarize_article on the text
SummarizeText ==
    /\ pc = "unit"
    /\ doc.fn = "summarize"
    /\ summary' = summarize_article(doc.text, doc.llm)
    /\ touched' = InvokesChain(doc.text)
    /\ pc' = "unit_done"
    /\ UNCHANGED <<running, creds, siteIdx, latest_articles, artIdx, content,
                   success, store, cycle, posted, failed, outcome, doc,
                   message>>

\* one call of post_to_telegram on the summary and the article
PostMessage ==
    /\ pc = "unit"
    /\ doc.fn = "publish"
    /\ message' = <<post_to_telegram(doc.text, doc.title, doc.url,
                                     doc.image_url)>>
    /\ pc' = "unit_done"
    /\ UNCHANGED <<running, creds, siteIdx, latest_articles, artIdx, content,
                   summary, success, store, cycle, posted, failed, outcome,
                   touched, doc>>

NextUnit ==
    \/ ScrapePage
    \/ SummarizeText
    \/ PostMessage

SpecUnit == UnitInit /\ [][NextUnit]_vars

----------------------------------------------------------------------------
(* Claims *)

\* the URLs handed to mark_as_posted so far, in order: a URL whose publish
\* just returned True is handed over by the next step
Marked ==
    IF pc \in {"record", "crashed"} /\ success
    THEN SubSeq(posted, 1, Len(posted) - 1) ELSE posted

StoreLines == SplitLines(store.text)

\* the candidate whose iteration has just ended
lastArticle == latest_articles[artIdx - 1]

\* C1: over any number of cycles and any scrape, summarize and publish
\* failures, no URL has two publish calls that returned success, no URL is in
\* the store twice, and a URL whose publish failed first and succeeded later
\* is in the store exactly once.
C1_AtMostOnePost ==
    /\ \A u \in Range(posted) : Count(posted, u) <= 1
    /\ \A l \in Range(StoreLines) : Count(StoreLines, l) <= 1
    /\ \A u \in Range(Marked) \cap failed : Count(StoreLines, u) = 1

\* C2: the store is written only right after a publish of the same URL
\* returned true: the file holds exactly the URLs whose publish succeeded,
\* each followed by a newline, in the order of the successes, and nothing
\* for a skipped or failed candidate.
C2_StoreOnlyAfterSuccess ==
    /\ [][store' # store =>
              /\ pc = "record" /\ success
              /\ posted[Len(posted)] = article.url
              /\ store'.text = store.text \o article.url \o <<LF>>]_vars
    /\ [](store.text = Flatten([i \in 1..Len(Marked) |-> Marked[i] \o <<LF>>]))

\* C2 witness: a publish has failed after an earlier one succeeded, and the
\* file holds the one successful URL only.
C2_Witness ==
    /\ pc = "cand_head"
    /\ outcome = "Failed"
    /\ Len(posted) = 1
    /\ store.text = posted[1] \o <<LF>>

\* C3: once mark_as_posted(u) was executed, has_been_posted(u) is true ever
\* after, whatever was marked later and across restarts.
C3_MarkedIsPosted == \A u \in Range(Marked) : has_been_posted(u, store)

\* C4: while the stop signal is not set, the loop over the candidates of a
\* source is left only when every candidate was processed, and the loop over
\* the sources only when every source was, whatever stage failed.
C4_FailureIsolation ==
    /\ running /\ pc \in {"site_end", "crashed"} => artIdx > Len(latest_articles)
    /\ running /\ pc \in {"sleep", "crashed"} => siteIdx > Len(selected_sites)

\* C5: no article fetch, summarize call or publish call is made for a
\* candidate whose URL was recorded in the store.
C5_NeverReconsidered ==
    pc \in {"scrape", "summarize", "publish"} => article.url \notin Range(Marked)

\* C6: a failed publish leaves the URL out of the store, and a URL whose
\* publish failed is not skipped at the dedup check of a later cycle unless a
\* publish of it has succeeded since.
C6_RetryAfterFailure ==
    /\ pc = "cand_head" /\ outcome = "Failed"
          => ~has_been_posted(lastArticle.url, store)
    /\ pc = "cand_head" /\ outcome = "SkippedPosted" /\ lastArticle.url \in failed
          => lastArticle.url \in Range(posted)

\* the matched elements that pass the filter of line 37, in document order
IsQualifying(e) == Qualifies(Strip(e.text), e.href)

QualifyingElems == SelectSeq(doc, IsQualifying)

\* the candidate an element stands for
CandidateOf(e) ==
    [title |-> Strip(e.text), url |-> urljoin(NEWS_SITES(site_name).url, e.href)]

QualifyingCandidates ==
    [i \in 1..Len(QualifyingElems) |-> CandidateOf(QualifyingElems[i])]

DistinctUrls(articles) ==
    \A i, j \in 1..Len(articles) : i # j => articles[i].url # articles[j].url

\* C7: no two candidates returned by one get_latest_articles call have the
\* same absolute url.
C7_NoDuplicateUrls == pc = "extracted" => DistinctUrls(latest_articles)

\* C8 as stated: when more than 10 matched elements qualify, exactly 10
\* candidates are returned.
C8_ExactlyTenOfQualifying ==
    pc = "extracted" /\ Len(QualifyingElems) > MaxArticles
        => Len(latest_articles) = MaxArticles

\* C8 amended: never more than 10 candidates are returned, and when more
\* than 10 matched elements qualify and their absolute urls are pairwise
\* distinct, the 10 returned are the first 10 qualifying elements, in
\* document order.
C8_CapAtTen ==
    pc = "extracted" =>
        /\ Len(latest_articles) <= MaxArticles
        /\ Len(QualifyingElems) > MaxArticles /\ DistinctUrls(QualifyingCandidates)
              => latest_articles = SubSeq(QualifyingCandidates, 1, MaxArticles)

\* C8 witness: a homepage with more than 10 qualifying links to distinct
\* articles, of which 10 were returned.
C8_Witness ==
    /\ pc = "extracted"
    /\ Len(QualifyingElems) > MaxArticles
    /\ DistinctUrls(QualifyingCandidates)
    /\ Len(latest_articles) = MaxArticles

\* C9: the running flag is tested before each source and before each
\* candidate: while it is cleared no source is started (no homepage fetch)
\* and no candidate begins (no dedup check, hence no article fetch,
\* summarize call, publish call or store write for it); only the candidate
\* already past the test goes on to its end.
C9_StopRespected ==
    [][~running =>
          /\ pc' = "fetch_home" => pc = "fetch_home"
          /\ pc' = "dedup" => pc = "dedup"
          /\ pc' \in {"scrape", "summarize", "publish", "record"}
                => /\ pc \in {"dedup", "scrape", "summarize", "publish", "record"}
                   /\ artIdx' = artIdx
                   /\ siteIdx' = siteIdx]_vars

\* C9 witness: the stop signal was set while the first candidate was being
\* processed, and the loop was left with the second candidate not begun.
C9_Witness ==
    /\ ~running
    /\ pc = "site_end"
    /\ artIdx = 2
    /\ Len(latest_articles) = 2
    /\ siteIdx < Len(selected_sites)

MissingKey == \E i \in 1..3 : creds[i] = <<>>

\* C10: with any of the three credentials missing, a started script run goes
\* to the configuration error with the running flag cleared and makes no
\* network call and no store write.
C10_ConfigError ==
    MissingKey =>
        /\ pc \in {"idle", "check_keys", "config_error"}
        /\ ~touched
        /\ pc # "check_keys" => ~running

\* C10 witness: the agent was started without a credential after an earlier
\* run had posted, and it stopped at the configuration error.
C10_Witness ==
    /\ MissingKey
    /\ pc = "config_error"
    /\ ~running
    /\ posted # <<>>

\* the summary part of the message sent: what stands between the title line
\* and the link line
SentSummary ==
    SubSeq(message[1].text,
           Len(MessageHead) + Len(doc.title) + Len(MessageMid) + 1,
           Len(message[1].text) - Len(MessageLink) - Len(doc.url) - 1)

PublishDone == pc = "unit_done" /\ doc.fn = "publish"

\* C11: for a summary of more than 850 characters the summary part of the
\* message sent is its first 850 characters followed by "...", never the
\* full summary; a summary of 850 characters or less is sent unchanged.
C11_SummaryTruncation ==
    PublishDone =>
        /\ message[1].text =
              MessageHead \o doc.title \o MessageMid \o SentSummary
                  \o MessageLink \o doc.url \o <<")">>
        /\ IF Len(doc.text) > MAX_SUMMARY_LENGTH
           THEN /\ SentSummary = SubSeq(doc.text, 1, MAX_SUMMARY_LENGTH) \o Ellipsis
                /\ SentSummary # doc.text
           ELSE SentSummary = doc.text

\* C11 witness: a summary of 900 characters was sent as 850 and the marker.
C11_Witness ==
    /\ PublishDone
    /\ Len(doc.text) = MaxSummaryLen
    /\ Len(SentSummary) = MAX_SUMMARY_LENGTH + Len(Ellipsis)


ScrapeDone == pc = "unit_done" /\ doc.fn = "scrape"

\* C12: scrape_article_content returns None whenever the page has no
\* paragraph or every paragraph's trimmed text is empty, with or without an
\* og:image tag, and the text of a dictionary it returns is not empty.
C12_EmptyTextIsAbsent ==
    ScrapeDone =>
        /\ (\A i \in 1..Len(doc.page.paras) : Strip(doc.page.paras[i]) = <<>>)
              => content = <<>>
        /\ content # <<>> => content[1].text # <<>>

\* the number of whitespace-separated words of the trimmed text
Words(text) == Len(Split(Strip(text)))

\* C13: a matched element whose trimmed text has 5 words or fewer (none
\* included) is in no returned candidate, whatever its href; every returned
\* candidate has a title of more than 5 words and comes from an element with
\* a non-empty href.
C13_TitleFilter ==
    pc = "extracted" =>
        /\ \A i \in 1..Len(doc) :
              Words(doc[i].text) <= MinTitleWords =>
                  \A j \in 1..Len(latest_articles) :
                      latest_articles[j].title # Strip(doc[i].text)
        /\ \A j \in 1..Len(latest_articles) :
              /\ Words(latest_articles[j].title) > MinTitleWords
              /\ latest_articles[j].url # <<>>
              /\ \E i \in 1..Len(doc) :
                    /\ doc[i].href # <<>>
                    /\ latest_articles[j].title = Strip(doc[i].text)
                    /\ latest_articles[j].url =
                          urljoin(NEWS_SITES(site_name).url, doc[i].href)

\* C13 witness: a homepage with two five-word links among six-word links,
\* of which only the six-word links were returned.
C13_Witness ==
    /\ pc = "extracted"
    /\ \E i, j \in 1..Len(doc) :
          /\ i # j
          /\ Words(doc[i].text) = MinTitleWords /\ doc[i].href # <<>>
          /\ Words(doc[j].text) = MinTitleWords /\ doc[j].href # <<>>
    /\ Len(latest_articles) = Len(doc) - 2
    /\ latest_articles # <<>>

\* C14: has_been_posted is false while the file is missing or empty, and
\* otherwise true exactly for the urls handed to an earlier mark_as_posted
\* call, compared as they are: a url never recorded is never reported.
C14_NoFalsePositives ==
    \A u \in KnownUrls :
        /\ ~store.exists \/ store.text = <<>> => ~has_been_posted(u, store)
        /\ has_been_posted(u, store) <=> u \in Range(Marked)

SummarizeDone == pc = "unit_done" /\ doc.fn = "summarize"

\* C15: summarize_article on an empty text returns the placeholder string
\* and does not reach chain.invoke; on a non-empty text it calls chain.invoke
\* and returns None when the call raises and the generated text when it
\* returns; the placeholder and None are different values.
C15_PlaceholderOrAbsent ==
    /\ <<Placeholder>> # <<>>
    /\ SummarizeDone =>
          IF doc.text = <<>>
          THEN summary = <<Placeholder>> /\ ~touched
          ELSE summary = doc.llm /\ touched

\* C15 witness: the empty text was answered with the placeholder, no call
\* made, although the call would have failed.
C15_Witness ==
    /\ SummarizeDone
    /\ doc.text = <<>>
    /\ doc.llm = <<>>
    /\ summary = <<Placeholder>>
    /\ ~touched

Stages == <<"dedup", "scrape", "summarize", "publish", "record">>

StageNo(p) == CHOOSE i \in 1..Len(Stages) : Stages[i] = p

Unposted == ~has_been_posted(article.url, store)

HasContent == content # <<>> /\ content[1].text # <<>>

HasSummary == summary # <<>> /\ summary[1] # <<>>

\* C16: the candidates of a source are taken one at a time in the order of
\* the list the extractor returned; for each the stages run in the order
\* dedup check, scrape, summarize, publish, record, each entered only from
\* the one before it with the same candidate; and a stage runs only if the
\* stages before it succeeded, so publish is called only for a candidate
\* found unposted, with content and with a summary, in the same iteration.
C16_StageOrder ==
    /\ [][/\ pc' \in Range(Stages) /\ pc' # pc =>
                /\ pc = IF pc' = "dedup" THEN "cand_head"
                        ELSE Stages[StageNo(pc') - 1]
                /\ artIdx' = artIdx
                /\ latest_articles' = latest_articles
          /\ artIdx' # artIdx =>
                \/ /\ artIdx' = artIdx + 1
                   /\ pc \in Range(Stages)
                   /\ pc' = "cand_head"
                   /\ latest_articles' = latest_articles
                \/ artIdx' = 1
          /\ latest_articles' # latest_articles =>
                pc = "fetch_home" \/ latest_articles' = <<>>]_vars
    /\ [](/\ pc \in Range(Stages) => artIdx \in 1..Len(latest_articles)
          /\ pc \in {"scrape", "summarize", "publish", "record"} => Unposted
          /\ pc \in {"summarize", "publish", "record"} => HasContent
          /\ pc \in {"publish", "record"} => HasSummary
          /\ pc = "record" => message # <<>>)

\* C16 witness: the first candidate of a list was dropped at the summarize
\* stage and the second went through every stage and was published.
C16_Witness ==
    /\ pc = "record"
    /\ artIdx = 2
    /\ outcome = "SkippedSummarize"
    /\ success

\* C17: when the homepage fetch fails or yields no candidate the list is
\* empty, the source ends at once (the candidate loop, and with it every
\* dedup check, article fetch, summarize call, publish call and store write,
\* is entered only with a non-empty list) and the loop goes on with the next
\* selected source.
C17_EmptySourceSkipped ==
    /\ [][/\ pc = "fetch_home" /\ pc' # pc /\ latest_articles' = <<>> =>
                /\ pc' = "site_head"
                /\ siteIdx' = siteIdx + 1
                /\ store' = store /\ posted' = posted /\ failed' = failed
                /\ message' = message
          /\ pc = "site_head" /\ pc' # pc =>
                pc' = IF siteIdx <= Len(selected_sites) /\ running
                      THEN "fetch_home" ELSE "sleep"]_vars
    /\ [](pc \in {"cand_head", "site_end"} \cup Range(Stages)
              => latest_articles # <<>>)

\* C17 witness: the first source gave no candidate and the homepage of the
\* second is about to be fetched, nothing published or stored yet.
C17_Witness ==
    /\ pc = "fetch_home"
    /\ siteIdx = 2
    /\ outcome = "NoArticles"
    /\ running
    /\ posted = <<>>
    /\ ~store.exists

\* C18: whatever the title, the url and the summary, the message that
\* post_to_telegram sends as the caption of a photo is at most 1024
\* characters long.
C18_CaptionCeiling ==
    PublishDone /\ message[1].photo => Len(message[1].text) <= CaptionLimit

\* C19: summarize_article is called only with a non-empty article text, so
\* its placeholder string is never the summary of a candidate, no message
\* carrying it is sent and no url is recorded for one.
C19_PlaceholderNeverPublished ==
    /\ pc = "summarize" => content # <<>> /\ content[1].text # <<>>
    /\ summary # <<Placeholder>>
    /\ message # <<>> => Placeholder[1] \notin Range(message[1].text)

\* C19 witness: a candidate whose page had no text was skipped before the
\* summarizer, after another candidate had been published.
C19_Witness ==
    /\ pc = "cand_head"
    /\ outcome = "SkippedScrape"
    /\ content = <<>>
    /\ summary = <<>>
    /\ posted # <<>>

TerminalOutcomes ==
    {"SkippedPosted", "SkippedScrape", "SkippedSummarize", "Posted", "Failed"}

\* the positions of a pass over the selected sites
InPass ==
    pc \in {"site_head", "fetch_home", "cand_head", "site_end"} \cup Range(Stages)

====
